---- MODULE Spec2Model ----
(***************************************************************************)
(* A model of gpio.c, the set-uid command line front end of wiringPi.      *)
(*                                                                         *)
(* One process invocation is a run of main: pc walks through main's        *)
(* stages, the handlers are single steps (they are sequential code), and   *)
(* the two wait-for-interrupt handlers are split at the points where the   *)
(* interrupt thread of the library can interleave.  The kernel's sysfs     *)
(* GPIO files persist from one invocation to the next.                     *)
(*                                                                         *)
(* C arrays are 0-based: Arg(i) is the C expression argv[i].               *)
(***************************************************************************)
EXTENDS Integers, Sequences, FiniteSets, TLC

VARIABLES
    pc,          \* where the process is: idle, main, numbering, ext, dispatch, wfi_reset, wfi_poll, blinking, done
    argv0,       \* the argument vector the process was started with
    argv,        \* main's argv, shifted in place by the flag handling
    argc,        \* main's argc
    euid,        \* what geteuid () returns in this invocation
    wpMode,      \* the global int wpMode
    wpAssigns,   \* how many times main has assigned wpMode in this invocation
    setupCalls,  \* the wiringPiSetup* functions called, in order
    extLoads,    \* the specs handed to loadWPiExtension, in order
    handler,     \* the handler function main has called ("none" before)
    hMode,       \* the value of wpMode when the handler was called
    libCalls,    \* the calls made into the wiringPi library by the handler
    lastWrite,   \* the level of the last digitalWrite of this invocation
    spawned,     \* the commands handed to system ()
    chowned,     \* the files handed to chown ()
    stdout,      \* what the handler printed on stdout (the lines that matter)
    stderr,      \* the last message printed on stderr
    exitCode,    \* the exit code of the process
    sysfs,       \* /sys/class/gpio: for each pin of the chip its export entry
    sysfs0,      \* sysfs as it was when the invocation started
    nInts,       \* the static int nInts
    isrOn,       \* wiringPiISR/wiringPiISRmulti has registered wfi
    n_pins,      \* the count the polling loop waits for
    pinList,     \* the pins handed to the interrupt registration
    delivered,   \* how many times an edge has called wfi since it was registered
    edgePins,    \* the pins whose edge has called wfi since it was registered
    isrTmp,      \* per interrupt thread: the value of nInts it read and has not yet written back (-1: none)
    met,         \* what the handler met in the file system: "no executable", "module2 missing", "empty read", "byte before buf cleared"
    devTree      \* the board has /proc/device-tree

vars == <<pc, argv0, argv, argc, euid, wpMode, wpAssigns, setupCalls, extLoads, handler,
          hMode, libCalls, lastWrite, spawned, chowned, stdout, stderr, exitCode,
          sysfs, sysfs0, nInts, isrOn, n_pins, pinList, delivered, edgePins,
          isrTmp, met, devTree>>

procVars == <<argv0, argv, argc, euid>>
modeVars == <<wpMode, wpAssigns, setupCalls>>
wfiVars  == <<nInts, isrOn, n_pins, pinList, delivered, edgePins, isrTmp>>

----------------------------------------------------------------------------
(* Bounds of the model *)

\* The interrupt thread delivers at most this many edges in one invocation.
MaxEdges == 3

\* The number of interrupt threads that may be inside wfi at the same time.
IsrThreads == 2

----------------------------------------------------------------------------
(* Strings *)

\* tolower over the tokens of the model that hold an upper-case letter.
UpperTokens ==
    [ t \in {"-H", "HELP", "-V", "-WARRANTY", "-B", "-P", "-W", "-Z", "-X",
             "EXPORT", "Exports", "EDGE", "UnExport", "UNEXPORTALL",
             "RISING", "Both", "NONE", "OUTPUT", "Out", "MODE", "READ",
             "pwmTone", "PWM-BAL", "MWFI", "LOAD", "SPI", "I2C", "USBP", "HIGH"} |->
        CASE t = "-H" -> "-h"            [] t = "HELP" -> "help"
          [] t = "-V" -> "-v"            [] t = "-WARRANTY" -> "-warranty"
          [] t = "-B" -> "-b"            [] t = "-P" -> "-p"
          [] t = "-W" -> "-w"            [] t = "-Z" -> "-z"
          [] t = "-X" -> "-x"            [] t = "EXPORT" -> "export"
          [] t = "Exports" -> "exports"  [] t = "EDGE" -> "edge"
          [] t = "UnExport" -> "unexport" [] t = "UNEXPORTALL" -> "unexportall"
          [] t = "RISING" -> "rising"    [] t = "Both" -> "both"
          [] t = "NONE" -> "none"        [] t = "OUTPUT" -> "output"
          [] t = "Out" -> "out"          [] t = "MODE" -> "mode"
          [] t = "READ" -> "read"        [] t = "pwmTone" -> "pwmtone"
          [] t = "PWM-BAL" -> "pwm-bal"  [] t = "MWFI" -> "mwfi"
          [] t = "LOAD" -> "load"        [] t = "SPI" -> "spi"
          [] t = "I2C" -> "i2c"          [] t = "USBP" -> "usbp"
          [] t = "HIGH" -> "high" ]

Lower(s) == IF s \in DOMAIN UpperTokens THEN UpperTokens[s] ELSE s

\* strcasecmp (a, b) == 0
strcasecmp(a, b) == Lower(a) = Lower(b)

\* strcmp (a, b) == 0
strcmp(a, b) == a = b

\* atoi: the decimal tokens of the model; anything else converts to 0.
Decimals ==
    [ t \in {"0", "1", "2", "3", "4", "17", "27", "62", "63", "99", "-1"} |->
        CASE t = "0" -> 0    [] t = "1" -> 1    [] t = "2" -> 2   [] t = "3" -> 3
          [] t = "4" -> 4    [] t = "17" -> 17  [] t = "27" -> 27
          [] t = "62" -> 62  [] t = "63" -> 63  [] t = "99" -> 99
          [] t = "-1" -> 0 - 1 ]

atoi(s) == IF s \in DOMAIN Decimals THEN Decimals[s] ELSE 0

\* strtok (list, ","): the lists of the model, split at the commas.
\* Runs of commas hold no token.
PinLists ==
    [ t \in {"4", "4,17", "4,17,27", "4,,17", ","} |->
        CASE t = "4" -> <<"4">>
          [] t = "4,17" -> <<"4", "17">>
          [] t = "4,17,27" -> <<"4", "17", "27">>
          [] t = "4,,17" -> <<"4", "17">>
          [] t = "," -> <<>> ]

strtok(s) == IF s \in DOMAIN PinLists THEN PinLists[s] ELSE <<s>>

----------------------------------------------------------------------------
(* argv *)

\* The C expression argv[i].
Arg(i) == argv[i + 1]

\* for (i = k + 1; i < argc; ++i) argv[i - k] = argv[i]: the in-place shift
\* down by k.  The entries from argc - k on keep their old strings.
ShiftArgs(av, ac, k) ==
    [ j \in 1..Len(av) |->
        IF j - 1 >= 1 /\ (j - 1) + k < ac THEN av[j + k] ELSE av[j] ]

----------------------------------------------------------------------------
(* The numbering schemes wpMode takes (wiringPi.h)                          *)

WPI_MODE_PINS == "WPI_MODE_PINS"
WPI_MODE_GPIO == "WPI_MODE_GPIO"
WPI_MODE_PHYS == "WPI_MODE_PHYS"
WPI_MODE_UNINITIALISED == "WPI_MODE_UNINITIALISED"

----------------------------------------------------------------------------
(* /sys/class/gpio as the handlers use it *)

\* The pins of the GPIO chip that the model follows.  The kernel refuses to
\* export any other number.
Pins == {4, 63}

Unexported == [exported |-> FALSE, direction |-> "in", edge |-> "none"]

\* fprintf (fd, "%d\n", pin) to /sys/class/gpio/export: the entry appears,
\* with the direction d the line happens to have and no edge trigger.  The
\* write fails, unnoticed, for a pin that is exported or is no pin of the chip.
WriteExport(s, pin, d) ==
    IF pin \in Pins /\ ~s[pin].exported
      THEN [s EXCEPT ![pin] = [exported |-> TRUE, direction |-> d, edge |-> "none"]]
      ELSE s

\* fopen (".../gpio<pin>/direction", "w") != NULL (and likewise edge)
CanOpenAttr(s, pin) == pin \in Pins /\ s[pin].exported

\* fprintf (fd, "<token>\n") to the pin's direction attribute
WriteDirection(s, pin, token) == [s EXCEPT ![pin].direction = token]

\* fprintf (fd, "<token>\n") to the pin's edge attribute
WriteEdge(s, pin, token) == [s EXCEPT ![pin].edge = token]

\* WriteUnexport with the export file opened in the place of the unexport file.
WriteUnexportToExport(s, pin) == WriteExport(s, pin, "in")

\* fprintf (fd, "%d\n", pin) to /sys/class/gpio/unexport
WriteUnexport(s, pin) ==
    IF pin \in Pins /\ s[pin].exported THEN [s EXCEPT ![pin] = Unexported] ELSE s

\* The token doExport writes to direction for a mode argument, "" for none.
ExportDirection(mode) ==
    IF strcasecmp(mode, "in") \/ strcasecmp(mode, "input") THEN "in"
    ELSE IF strcasecmp(mode, "out") \/ strcasecmp(mode, "output") THEN "out"
    ELSE IF strcasecmp(mode, "high") \/ strcasecmp(mode, "up") THEN "high"
    ELSE IF strcasecmp(mode, "low") \/ strcasecmp(mode, "down") THEN "low"
    ELSE ""

\* EdgeToken with strcmp in the place of strcasecmp.
EdgeTokenExact(mode) ==
    IF strcmp(mode, "none") THEN "none"
    ELSE IF strcmp(mode, "rising") THEN "rising"
    ELSE IF strcmp(mode, "falling") THEN "falling"
    ELSE IF strcmp(mode, "both") THEN "both"
    ELSE ""

\* The token doEdge writes to edge for a mode argument, "" for none.
EdgeToken(mode) ==
    IF strcasecmp(mode, "none") THEN "none"
    ELSE IF strcasecmp(mode, "rising") THEN "rising"
    ELSE IF strcasecmp(mode, "falling") THEN "falling"
    ELSE IF strcasecmp(mode, "both") THEN "both"
    ELSE ""

\* The two changeOwner calls that end doExport and doEdge.
PinFiles(pin) == {<<pin, "value">>, <<pin, "edge">>}

----------------------------------------------------------------------------
(* The argument vectors of the model *)

NumberingFlags ==
    {<<>>, <<"-b">>, <<"-p">>, <<"-w">>, <<"-z">>, <<"-W">>}

ExtensionFlags ==
    {<<>>, <<"-x", "ext1">>, <<"-x", "ext1", "-X", "ext2">>, <<"-x">>}

\* The commands that follow every combination of flags.
FlaggedCommands ==
    {<<>>, <<"read", "4">>, <<"MODE", "4", "out">>, <<"export", "4", "out">>, <<"bogus">>}

\* The commands given without flags: every handler with the argument count
\* it asks for, with one less and with one more.
PlainCommands ==
    { <<"h">>, <<"-H">>, <<"HELP">>, <<"--help">>, <<"-help">>, <<"-v">>, <<"-V">>,
      <<"-warranty">>, <<"-WARRANTY">>,
      <<"exports">>, <<"Exports", "4">>,
      <<"export", "4">>, <<"export", "4", "out">>, <<"EXPORT", "63", "OUTPUT">>,
      <<"export", "4", "in">>, <<"export", "4", "HIGH">>, <<"export", "4", "down">>,
      <<"export", "4", "bogus">>, <<"export", "99", "out">>, <<"export", "4", "out", "x">>,
      <<"edge", "4">>, <<"edge", "4", "rising">>, <<"EDGE", "4", "RISING">>,
      <<"edge", "4", "Both">>, <<"edge", "4", "none">>, <<"edge", "4", "falling">>,
      <<"edge", "4", "bogus">>, <<"edge", "63", "bogus">>, <<"edge", "99", "rising">>,
      <<"edge", "4", "rising", "x">>,
      <<"unexport">>, <<"unexport", "4">>, <<"UnExport", "63">>, <<"unexport", "4", "x">>,
      <<"unexportall">>, <<"UNEXPORTALL", "x">>,
      <<"mode", "4">>, <<"mode", "4", "out">>, <<"mode", "4", "bogus">>,
      <<"mode", "4", "out", "x">>,
      <<"read">>, <<"READ", "4">>, <<"read", "4", "x">>,
      <<"bank">>, <<"bank", "0">>, <<"bank", "1">>, <<"bank", "2">>, <<"bank", "-1">>,
      <<"bank", "0", "x">>,
      <<"write", "4">>, <<"write", "4", "1">>, <<"write", "4", "off">>, <<"write", "4", "1", "x">>,
      <<"pwm", "4">>, <<"pwm", "4", "1">>, <<"pwm", "4", "1", "x">>,
      <<"awrite", "4">>, <<"awrite", "4", "1">>, <<"awrite", "4", "1", "x">>,
      <<"aread">>, <<"aread", "4">>, <<"aread", "4", "x">>,
      <<"toggle">>, <<"toggle", "4">>, <<"toggle", "4", "x">>,
      <<"blink">>, <<"blink", "4">>, <<"blink", "4", "x">>,
      <<"pwm-bal">>, <<"PWM-BAL", "x">>, <<"pwm-ms">>, <<"pwm-ms", "x">>,
      <<"pwmr">>, <<"pwmr", "2">>, <<"pwmr", "0">>, <<"pwmr", "2", "x">>,
      <<"pwmc">>, <<"pwmc", "2">>, <<"pwmc", "0">>, <<"pwmc", "2", "x">>,
      <<"pwmTone", "4">>, <<"pwmtone", "4", "1">>, <<"pwmTone", "4", "1", "x">>,
      <<"drive", "1">>, <<"drive", "1", "2">>, <<"drive", "3", "2">>, <<"drive", "1", "99">>,
      <<"drive", "1", "2", "x">>,
      <<"readall">>, <<"readall", "x">>, <<"nreadall">>, <<"pins">>,
      <<"qmode", "4">>,
      <<"i2cdetect">>, <<"i2cd", "x">>,
      <<"reset">>, <<"reset", "x">>,
      <<"wb">>, <<"wb", "1">>, <<"wb", "1", "x">>,
      <<"rbx">>, <<"rbx", "x">>, <<"rbd">>, <<"rbd", "x">>,
      <<"clock", "4">>, <<"clock", "4", "1">>, <<"clock", "4", "1", "x">>,
      <<"wfi", "4">>, <<"wfi", "4", "rising">>, <<"wfi", "4", "bogus">>,
      <<"wfi", "4", "rising", "x">>,
      <<"mwfi", "4,17">>, <<"mwfi", "4,17", "Both">>, <<"MWFI", "4,17,27", "both">>,
      <<"mwfi", "4", "falling">>, <<"mwfi", ",", "both">>, <<"mwfi", "4,17", "bogus">>,
      <<"mwfi", "4,17", "both", "x">>,
      <<"load">>, <<"LOAD", "SPI">>, <<"load", "spi", "1">>, <<"load", "i2c">>,
      <<"load", "I2C", "1">>, <<"load", "i2c", "1", "x">>, <<"load", "bogus">>,
      <<"unload">>, <<"unload", "spi">>, <<"unload", "i2c">>, <<"unload", "bogus">>,
      <<"unload", "spi", "x">>,
      <<"usbp">>, <<"USBP", "HIGH">>, <<"usbp", "lo">>, <<"usbp", "bogus">>,
      <<"usbp", "high", "x">>,
      <<"allreadall">>, <<"allreadall", "x">> }

Argvs ==
    {<<"gpio">>}
      \cup { <<"gpio">> \o c : c \in PlainCommands }
      \cup { <<"gpio">> \o f \o x \o c :
               f \in NumberingFlags, x \in ExtensionFlags, c \in FlaggedCommands }

Euids == {0, 1000}

----------------------------------------------------------------------------
(* The start of a process *)

Init ==
    /\ pc = "idle"
    /\ argv0 = <<"gpio">>
    /\ argv = <<"gpio">>
    /\ argc = 1
    /\ euid = 0
    /\ wpMode = WPI_MODE_PINS      \* int wpMode; is zero, which wiringPi.h calls WPI_MODE_PINS
    /\ wpAssigns = 0
    /\ setupCalls = <<>>
    /\ extLoads = <<>>
    /\ handler = "none"
    /\ hMode = WPI_MODE_PINS
    /\ libCalls = <<>>
    /\ lastWrite = "none"
    /\ spawned = <<>>
    /\ chowned = {}
    /\ stdout = <<>>
    /\ stderr = ""
    /\ exitCode = 0
    /\ sysfs = [p \in Pins |-> Unexported]
    /\ sysfs0 = [p \in Pins |-> Unexported]
    /\ nInts = 0
    /\ isrOn = FALSE
    /\ n_pins = 0
    /\ pinList = <<>>
    /\ delivered = 0
    /\ edgePins = {}
    /\ isrTmp = [t \in 1..IsrThreads |-> 0 - 1]
    /\ met = {}
    /\ devTree \in BOOLEAN

\* The shell starts gpio with an argument vector and an effective user id.
Invoke ==
    /\ pc = "idle"
    /\ \E av \in Argvs, id \in Euids :
         /\ argv0' = av
         /\ argv' = av
         /\ argc' = Len(av)
         /\ euid' = id
    /\ pc' = "main"
    /\ sysfs0' = sysfs
    /\ UNCHANGED <<modeVars, wfiVars, extLoads, handler, hMode, libCalls, lastWrite,
                   spawned, chowned, stdout, stderr, exitCode, sysfs, met, devTree>>

\* The process is gone.  Nothing of it is left but the files: the next one
\* starts with every static of the program at its initial value.
Reap ==
    /\ pc = "done"
    /\ pc' = "idle"
    /\ argv0' = <<"gpio">>
    /\ argv' = <<"gpio">>
    /\ argc' = 1
    /\ euid' = 0
    /\ wpMode' = WPI_MODE_PINS
    /\ wpAssigns' = 0
    /\ setupCalls' = <<>>
    /\ extLoads' = <<>>
    /\ handler' = "none"
    /\ hMode' = WPI_MODE_PINS
    /\ libCalls' = <<>>
    /\ lastWrite' = "none"
    /\ spawned' = <<>>
    /\ chowned' = {}
    /\ stdout' = <<>>
    /\ stderr' = ""
    /\ exitCode' = 0
    /\ sysfs' = sysfs
    /\ sysfs0' = sysfs
    /\ nInts' = 0
    /\ isrOn' = FALSE
    /\ n_pins' = 0
    /\ pinList' = <<>>
    /\ delivered' = 0
    /\ edgePins' = {}
    /\ isrTmp' = [t \in 1..IsrThreads |-> 0 - 1]
    /\ met' = {}
    /\ devTree' = devTree

\* exit (code) after a message on stderr, or the return from main.
Exit(code, msg) ==
    /\ pc' = "done"
    /\ exitCode' = code
    /\ stderr' = msg

\* main calls a handler: which one, and the numbering scheme in force.
Call(h) ==
    /\ handler' = h
    /\ hMode' = wpMode

----------------------------------------------------------------------------
(* main, up to the privilege check *)

\* argc == 1: nothing but the program name
NoArgs ==
    /\ pc = "main"
    /\ argc = 1
    /\ Exit(1, "Format: gpio -h for full details")
    /\ UNCHANGED <<procVars, modeVars, wfiVars, extLoads, handler, hMode, libCalls,
                   lastWrite, spawned, chowned, stdout, sysfs, sysfs0, met, devTree>>

IsHelp(a) ==
    \/ strcasecmp(a, "h")
    \/ strcasecmp(a, "-h")
    \/ strcasecmp(a, "-help")
    \/ strcasecmp(a, "--help")
    \/ strcasecmp(a, "help")

Help ==
    /\ pc = "main"
    /\ argc # 1
    /\ IsHelp(Arg(1))
    /\ stdout' = <<"usage">>
    /\ Exit(0, "")
    /\ UNCHANGED <<procVars, modeVars, wfiVars, extLoads, handler, hMode, libCalls,
                   lastWrite, spawned, chowned, sysfs, sysfs0, met, devTree>>

\* -v, compared with strcmp: doVersion prints what piBoardId reports.
Version ==
    /\ pc = "main"
    /\ argc # 1
    /\ ~IsHelp(Arg(1))
    /\ strcmp(Arg(1), "-v")
    /\ libCalls' = <<"wiringPiVersion", "piBoardId">>
    /\ stdout' = <<"gpio version">>
    /\ Exit(0, "")
    /\ UNCHANGED <<procVars, modeVars, wfiVars, extLoads, handler, hMode,
                   lastWrite, spawned, chowned, sysfs, sysfs0, met, devTree>>

Warranty ==
    /\ pc = "main"
    /\ argc # 1
    /\ ~IsHelp(Arg(1))
    /\ ~strcmp(Arg(1), "-v")
    /\ strcasecmp(Arg(1), "-warranty")
    /\ stdout' = <<"warranty">>
    /\ Exit(0, "")
    /\ UNCHANGED <<procVars, modeVars, wfiVars, extLoads, handler, hMode, libCalls,
                   lastWrite, spawned, chowned, sysfs, sysfs0, met, devTree>>

\* main has come to the test of geteuid ().
PastHelp ==
    /\ pc = "main"
    /\ argc # 1
    /\ ~IsHelp(Arg(1))
    /\ ~strcmp(Arg(1), "-v")
    /\ ~strcasecmp(Arg(1), "-warranty")

\* if (geteuid () != 0) exit (EXIT_FAILURE)
NotRoot ==
    /\ PastHelp
    /\ euid # 0
    /\ Exit(1, "Must be root to run. Program should be suid root. This is an error.")
    /\ UNCHANGED <<procVars, modeVars, wfiVars, extLoads, handler, hMode, libCalls,
                   lastWrite, spawned, chowned, stdout, sysfs, sysfs0, met, devTree>>

\* Privileged without the test of geteuid ().
PrivilegedAnyUser == PastHelp

\* main has passed the test of geteuid ().
Privileged == PastHelp /\ euid = 0

----------------------------------------------------------------------------
(* The /sys/class/gpio commands, which main runs before any setup *)

SysfsCommands == {"exports", "export", "edge", "unexport", "unexportall"}

\* The handlers leave everything of the process alone but the files, the
\* output and the exit.
SysfsFrame ==
    UNCHANGED <<procVars, modeVars, wfiVars, extLoads, libCalls, lastWrite, spawned, sysfs0, met, devTree>>

\* The attributes of an exported pin that doExports reads, in its order.
Attributes == <<"direction", "value", "edge">>

\* read (fd, buf, 16) on an attribute: the bytes the kernel hands over, the
\* token and its newline, or none at all (empty: the attributes whose read
\* returns 0; level: what the value attribute holds).
ReadAttr(s, pin, attr, empty, level) ==
    IF attr \in empty THEN <<>>
    ELSE IF attr = "direction" THEN <<s[pin].direction, "\n">>
    ELSE IF attr = "value" THEN <<level, "\n">>
    ELSE <<s[pin].edge, "\n">>

\* What doExports prints for the l = Len(content) bytes it has read:
\*   if (l == 0) sprintf (buf, "%s", "?");
\*   buf[l] = 0;
\*   if (buf[strlen (buf) - 1] == '\n') buf[strlen (buf) - 1] = 0;
\* After an empty read buf[0] = 0 has wiped the "?" and the test looks at
\* buf[-1]: the string printed is empty whatever that byte holds.
ExportField(content) ==
    LET l    == Len(content)
        buf0 == IF l = 0 THEN <<"?">> ELSE content
        buf1 == SubSeq(buf0, 1, l)
    IN  IF buf1 # <<>> /\ buf1[Len(buf1)] = "\n"
          THEN SubSeq(buf1, 1, Len(buf1) - 1)
          ELSE buf1

\* The lines doExports prints: one for each of the pins i .. 63 whose
\* direction attribute opens, with the bytes read and the field printed
\* for each attribute.
RECURSIVE ExportLines(_, _, _, _)
ExportLines(s, i, empty, level) ==
    IF i >= 64 THEN <<>>
    ELSE (IF CanOpenAttr(s, i)
            THEN << [pin   |-> i,
                     read  |-> [k \in 1..3 |-> ReadAttr(s, i, Attributes[k], empty, level)],
                     field |-> [k \in 1..3 |->
                                  ExportField(ReadAttr(s, i, Attributes[k], empty, level))]] >>
            ELSE <<>>) \o ExportLines(s, i + 1, empty, level)

\* The byte in front of buf, which doExports looks at after an empty read
\* and clears when it holds a newline, is no byte of buf: what it belongs
\* to is the compiler's choice.
DoExports ==
    /\ Privileged
    /\ strcasecmp(Arg(1), "exports")
    /\ Call("doExports")
    /\ \E empty \in SUBSET {"direction", "value", "edge"}, level \in {"0", "1"},
          cleared \in BOOLEAN :
         /\ stdout' = ExportLines(sysfs, 0, empty, level)
         /\ met' = IF empty = {} \/ stdout' = <<>> THEN {}
                   ELSE IF cleared THEN {"empty read", "byte before buf cleared"}
                   ELSE {"empty read"}
    /\ Exit(0, "")
    /\ UNCHANGED <<sysfs, chowned>>
    /\ UNCHANGED <<procVars, modeVars, wfiVars, extLoads, libCalls, lastWrite, spawned,
                   sysfs0, devTree>>

DoExport ==
    /\ Privileged
    /\ strcasecmp(Arg(1), "export")
    /\ Call("doExport")
    /\ IF argc # 4
         THEN /\ Exit(1, "Usage: %s export pin mode")
              /\ UNCHANGED <<sysfs, chowned>>
         ELSE \E opens \in BOOLEAN, d \in {"in", "out"} :
                LET pin  == atoi(Arg(2))
                    mode == Arg(3)
                    s1   == WriteExport(sysfs, pin, d)
                IN  IF ~opens
                      THEN /\ Exit(1, "Unable to open GPIO export interface")
                           /\ UNCHANGED <<sysfs, chowned>>
                    ELSE IF ~CanOpenAttr(s1, pin)
                      THEN /\ Exit(1, "Unable to open GPIO direction interface")
                           /\ sysfs' = s1
                           /\ UNCHANGED chowned
                    ELSE IF ExportDirection(mode) = ""
                      THEN /\ Exit(1, "Invalid mode. Should be in, out, high or low")
                           /\ sysfs' = s1
                           /\ UNCHANGED chowned
                    ELSE /\ sysfs' = WriteDirection(s1, pin, ExportDirection(mode))
                         /\ chowned' = PinFiles(pin)
                         /\ Exit(0, "")
    /\ UNCHANGED stdout
    /\ SysfsFrame

\* EdgeWrites without the write of "in" to the direction attribute.
EdgeWritesKeepDirection(s, pin, mode, d, edgeOpens) ==
    LET s1 == WriteExport(s, pin, d)
    IN  IF ~CanOpenAttr(s1, pin) \/ ~edgeOpens \/ EdgeToken(mode) = "" THEN s1
        ELSE WriteEdge(s1, pin, EdgeToken(mode))

\* What doEdge leaves in sysfs when the export file opens (edgeOpens: the
\* pin has an edge attribute that opens).
EdgeWrites(s, pin, mode, d, edgeOpens) ==
    LET s1 == WriteExport(s, pin, d)
        s2 == WriteDirection(s1, pin, "in")
    IN  IF ~CanOpenAttr(s1, pin) THEN s1
        ELSE IF ~edgeOpens \/ EdgeToken(mode) = "" THEN s2
        ELSE WriteEdge(s2, pin, EdgeToken(mode))

DoEdge ==
    /\ Privileged
    /\ strcasecmp(Arg(1), "edge")
    /\ Call("doEdge")
    /\ IF argc # 4
         THEN /\ Exit(1, "Usage: %s edge pin mode")
              /\ UNCHANGED <<sysfs, chowned>>
         ELSE \E opens \in BOOLEAN, edgeOpens \in BOOLEAN, d \in {"in", "out"} :
                LET pin  == atoi(Arg(2))
                    mode == Arg(3)
                    s1   == WriteExport(sysfs, pin, d)
                IN  IF ~opens
                      THEN /\ Exit(1, "Unable to open GPIO export interface")
                           /\ UNCHANGED <<sysfs, chowned>>
                    ELSE /\ sysfs' = EdgeWrites(sysfs, pin, mode, d, edgeOpens)
                         /\ IF ~CanOpenAttr(s1, pin)
                              THEN /\ Exit(1, "Unable to open GPIO direction interface")
                                   /\ UNCHANGED chowned
                            ELSE IF ~edgeOpens
                              THEN /\ Exit(1, "Unable to open GPIO edge interface")
                                   /\ UNCHANGED chowned
                            ELSE IF EdgeToken(mode) = ""
                              THEN /\ Exit(1, "Invalid mode. Should be none, rising, falling or both")
                                   /\ UNCHANGED chowned
                            ELSE /\ chowned' = PinFiles(pin)
                                 /\ Exit(0, "")
    /\ UNCHANGED stdout
    /\ SysfsFrame

DoUnexport ==
    /\ Privileged
    /\ strcasecmp(Arg(1), "unexport")
    /\ Call("doUnexport")
    /\ IF argc # 3
         THEN /\ Exit(1, "Usage: %s unexport pin")
              /\ UNCHANGED sysfs
         ELSE \E opens \in BOOLEAN :
                IF ~opens
                  THEN /\ Exit(1, "Unable to open GPIO export interface")
                       /\ UNCHANGED sysfs
                  ELSE /\ sysfs' = WriteUnexport(sysfs, atoi(Arg(2)))
                       /\ Exit(0, "")
    /\ UNCHANGED <<stdout, chowned>>
    /\ SysfsFrame

\* for (pin = 0; pin < 63; ++pin): each of the pins 0 .. 62 written to
\* unexport; a write changes the entry of its pin alone.
UnexportLoop(s) ==
    [ pin \in DOMAIN s |->
        IF 0 <= pin /\ pin < 63 THEN WriteUnexport(s, pin)[pin] ELSE s[pin] ]

DoUnexportall ==
    /\ Privileged
    /\ strcasecmp(Arg(1), "unexportall")
    /\ Call("doUnexportall")
    /\ \E opens \in BOOLEAN :
         IF ~opens
           THEN /\ Exit(1, "Unable to open GPIO export interface")
                /\ UNCHANGED sysfs
           ELSE /\ sysfs' = UnexportLoop(sysfs)
                /\ Exit(0, "")
    /\ UNCHANGED <<stdout, chowned>>
    /\ SysfsFrame

\* PastSysfs without the returns that follow the /sys/class/gpio handlers.
PastSysfsFallsThrough == Privileged

\* main has passed the /sys/class/gpio commands.
PastSysfs ==
    /\ Privileged
    /\ \A c \in SysfsCommands : ~strcasecmp(Arg(1), c)

----------------------------------------------------------------------------
(* load, unload, usbp and allreadall, which main runs next *)

EarlyFrame ==
    UNCHANGED <<procVars, wpMode, wpAssigns, wfiVars, extLoads, sysfs, sysfs0, devTree>>

\* sprintf (cmd, "%s %s%s", findExecutable (prog), module, args): the
\* command line handed to system (); "(null)" stands where no path was found.
CommandLine(found, prog, module) == <<IF found THEN prog ELSE "(null)", module>>

\* The first module of the pair that load and unload work on.
Module1(what) == IF strcasecmp(what, "spi") THEN "spidev" ELSE "i2c_dev"

\* The second module of the pair.
Module2(what) == IF strcasecmp(what, "spi") THEN "spi_bcm2708" ELSE "i2c_bcm2708"

\* The device files whose owner doLoad changes.
DeviceFiles(what) ==
    IF strcasecmp(what, "spi") THEN {"/dev/spidev0.0", "/dev/spidev0.1"}
                               ELSE {"/dev/i2c-0", "/dev/i2c-1"}

\* doLoad's test of its arguments: "" when they pass, the message otherwise.
LoadUsage ==
    IF argc < 3 THEN "Usage: %s load <spi/i2c>[I2C baudrate in Kb/sec]"
    ELSE IF strcasecmp(Arg(2), "spi")
      THEN IF argc = 4 THEN "Unable to set the buffer size now. Load aborted."
           ELSE IF argc > 4 THEN "Usage: %s load <spi/i2c>[I2C baudrate in Kb/sec]"
           ELSE ""
    ELSE IF strcasecmp(Arg(2), "i2c")
      THEN IF argc > 4 THEN "Usage: %s load <spi/i2c>[I2C baudrate in Kb/sec]" ELSE ""
    ELSE "Usage: %s load <spi/i2c>[I2C baudrate in Kb/sec]"

\* What findExecutable's answer adds to what the handler has met.
NoExecutable(found) == IF found THEN {} ELSE {"no executable"}

\* sprintf is handed the NULL that findExecutable returned: the C library
\* prints "(null)" or the process dies of the access (SIGSEGV, which the
\* shell reports as 128 + 11).
NullOutcomes(found, needed) == IF ~found /\ needed THEN BOOLEAN ELSE {FALSE}

\* checkDevTree with the stat of a path that no board has.
checkDevTreeNever == FALSE

\* stat ("/proc/device-tree", &statBuf) == 0: checkDevTree ends the process.
checkDevTree == devTree

\* found: modprobe is in the search path.
\* modules: /proc/modules opens.  m1, m2: the module is listed before the
\* work; m2after: the second module is listed after it.
DoLoad ==
    /\ PastSysfs
    /\ strcasecmp(Arg(1), "load")
    /\ Call("doLoad")
    /\ \E found \in BOOLEAN, modules \in BOOLEAN,
          m1 \in BOOLEAN, m2 \in BOOLEAN, m2after \in BOOLEAN :
         /\ m2 => m2after
         /\ (~m2 /\ ~found) => ~m2after
         /\ IF checkDevTree
              THEN /\ Exit(1, "Unable to load/unload modules as this Pi has the device tree enabled.")
                   /\ UNCHANGED <<spawned, chowned, stdout, met>>
            ELSE IF LoadUsage # ""
              THEN /\ Exit(1, LoadUsage)
                   /\ UNCHANGED <<spawned, chowned, stdout, met>>
            ELSE IF ~modules
              THEN /\ Exit(1, "Unable to check /proc/modules")
                   /\ stdout' = IF found THEN <<>> ELSE <<"No found">>
                   /\ met' = NoExecutable(found)
                   /\ UNCHANGED <<spawned, chowned>>
            ELSE \E dies \in NullOutcomes(found, ~m1 \/ ~m2) :
                 /\ stdout' = IF found THEN <<>> ELSE <<"No found">>
                 /\ IF dies
                      THEN /\ Exit(128 + 11, "Segmentation fault")
                           /\ met' = NoExecutable(found)
                           /\ UNCHANGED <<spawned, chowned>>
                      ELSE /\ spawned' =
                                (IF m1 THEN <<>> ELSE <<CommandLine(found, "modprobe", Module1(Arg(2)))>>)
                                \o (IF m2 THEN <<>> ELSE <<CommandLine(found, "modprobe", Module2(Arg(2)))>>)
                           /\ IF ~m2after
                                THEN /\ Exit(1, "Unable to load module")
                                     /\ met' = NoExecutable(found) \cup {"module2 missing"}
                                     /\ UNCHANGED chowned
                                ELSE /\ chowned' = DeviceFiles(Arg(2))
                                     /\ met' = NoExecutable(found)
                                     /\ Exit(0, "")
    /\ UNCHANGED <<setupCalls, libCalls, lastWrite>>
    /\ EarlyFrame

\* doUnLoad's test of its arguments.
UnLoadUsage ==
    IF argc # 3 THEN "Usage: %s unload <spi/i2c>"
    ELSE IF strcasecmp(Arg(2), "spi") \/ strcasecmp(Arg(2), "i2c") THEN ""
    ELSE "Usage: %s unload <spi/i2c>"

\* rmmod is looked for only when a module of the pair is listed.
DoUnLoad ==
    /\ PastSysfs
    /\ strcasecmp(Arg(1), "unload")
    /\ Call("doUnLoad")
    /\ \E found \in BOOLEAN, modules \in BOOLEAN,
          m1 \in BOOLEAN, m2 \in BOOLEAN :
         IF checkDevTree
           THEN /\ Exit(1, "Unable to load/unload modules as this Pi has the device tree enabled.")
                /\ UNCHANGED <<spawned, met>>
         ELSE IF UnLoadUsage # ""
           THEN /\ Exit(1, UnLoadUsage)
                /\ UNCHANGED <<spawned, met>>
         ELSE IF ~modules
           THEN /\ Exit(1, "Unable to check /proc/modules")
                /\ UNCHANGED <<spawned, met>>
         ELSE \E dies \in NullOutcomes(found, m1 \/ m2) :
              /\ met' = IF m1 \/ m2 THEN NoExecutable(found) ELSE {}
              /\ IF dies
                   THEN /\ Exit(128 + 11, "Segmentation fault")
                        /\ UNCHANGED spawned
                   ELSE /\ spawned' =
                             (IF m1 THEN <<CommandLine(found, "rmmod", Module1(Arg(2)))>> ELSE <<>>)
                             \o (IF m2 THEN <<CommandLine(found, "rmmod", Module2(Arg(2)))>> ELSE <<>>)
                        /\ Exit(0, "")
    /\ UNCHANGED <<setupCalls, libCalls, lastWrite, chowned, stdout>>
    /\ EarlyFrame

\* supported: piBoardId reports a B+ or a 2B.
DoUsbP ==
    /\ PastSysfs
    /\ strcasecmp(Arg(1), "usbp")
    /\ Call("doUsbP")
    /\ \E supported \in BOOLEAN :
         IF argc # 3
           THEN /\ Exit(1, "Usage: %s usbp high|low")
                /\ UNCHANGED <<setupCalls, libCalls, lastWrite>>
         ELSE IF ~supported
           THEN /\ Exit(1, "USB power contol is applicable to B+ and v2 boards only.")
                /\ libCalls' = << <<"piBoardId">> >>
                /\ UNCHANGED <<setupCalls, lastWrite>>
         ELSE /\ setupCalls' = Append(setupCalls, "wiringPiSetupGpio")
              /\ IF strcasecmp(Arg(2), "high") \/ strcasecmp(Arg(2), "hi")
                   THEN /\ libCalls' = << <<"piBoardId">>, <<"digitalWrite", 38, 1>>, <<"pinMode", 38, "OUTPUT">> >>
                        /\ lastWrite' = "HIGH"
                        /\ Exit(0, "")
                 ELSE IF strcasecmp(Arg(2), "low") \/ strcasecmp(Arg(2), "lo")
                   THEN /\ libCalls' = << <<"piBoardId">>, <<"digitalWrite", 38, 0>>, <<"pinMode", 38, "OUTPUT">> >>
                        /\ lastWrite' = "LOW"
                        /\ Exit(0, "")
                 ELSE /\ libCalls' = << <<"piBoardId">> >>
                      /\ UNCHANGED lastWrite
                      /\ Exit(1, "Usage: %s usbp high|low")
    /\ UNCHANGED <<spawned, chowned, stdout, met>>
    /\ EarlyFrame

AllReadall ==
    /\ PastSysfs
    /\ strcasecmp(Arg(1), "allreadall")
    /\ Call("doAllReadall")
    /\ setupCalls' = Append(setupCalls, "wiringPiSetupGpio")
    /\ libCalls' = << <<"doAllReadall">> >>
    /\ Exit(0, "")
    /\ UNCHANGED <<lastWrite, spawned, chowned, stdout, met>>
    /\ EarlyFrame

\* main has come to the numbering flags.
PastEarly ==
    /\ PastSysfs
    /\ \A c \in {"load", "unload", "usbp", "allreadall"} : ~strcasecmp(Arg(1), c)

----------------------------------------------------------------------------
(* The numbering flags and the extensions *)

FlagFrame ==
    UNCHANGED <<argv0, euid, wfiVars, handler, hMode, libCalls, lastWrite, spawned,
                chowned, stdout, stderr, exitCode, sysfs, sysfs0, met, devTree>>

\* A flag is shifted out and its scheme recorded.
TakeFlag(mode) ==
    /\ argv' = ShiftArgs(argv, argc, 1)
    /\ argc' = argc - 1
    /\ wpMode' = mode
    /\ wpAssigns' = wpAssigns + 1

\* if -b ... else if -p ...
NumberingBP ==
    /\ PastEarly
    /\ IF strcasecmp(Arg(1), "-b")
         THEN /\ setupCalls' = Append(setupCalls, "wiringPiSetupGpio")
              /\ TakeFlag(WPI_MODE_GPIO)
       ELSE IF strcasecmp(Arg(1), "-p")
         THEN /\ setupCalls' = Append(setupCalls, "wiringPiSetupPhys")
              /\ TakeFlag(WPI_MODE_PHYS)
       ELSE UNCHANGED <<argv, argc, modeVars>>
    /\ pc' = "numbering"
    /\ UNCHANGED extLoads
    /\ FlagFrame

\* if -w ... else if -z ... else the default
NumberingWZ ==
    /\ pc = "numbering"
    /\ IF strcasecmp(Arg(1), "-w")
         THEN /\ setupCalls' = Append(setupCalls, "wiringPiSetup")
              /\ TakeFlag(WPI_MODE_PINS)
       ELSE IF strcasecmp(Arg(1), "-z")
         THEN /\ UNCHANGED setupCalls
              /\ TakeFlag(WPI_MODE_UNINITIALISED)
       ELSE /\ setupCalls' = Append(setupCalls, "wiringPiSetupGpio")
            /\ wpMode' = WPI_MODE_GPIO
            /\ wpAssigns' = wpAssigns + 1
            /\ UNCHANGED <<argv, argc>>
    /\ pc' = "ext"
    /\ UNCHANGED extLoads
    /\ FlagFrame

\* ShiftPair with argc -= 1 in the place of argc -= 2.
ShiftPairCountOne ==
    /\ argv' = ShiftArgs(argv, argc, 2)
    /\ argc' = argc - 1

\* for (i = 3; i < argc; ++i) argv[i - 2] = argv[i]; argc -= 2;
ShiftPair ==
    /\ argv' = ShiftArgs(argv, argc, 2)
    /\ argc' = argc - 2

\* One turn of while (strcasecmp (argv [1], "-x") == 0).
\* loaded: loadWPiExtension returns TRUE.
LoadExtension ==
    /\ pc = "ext"
    /\ strcasecmp(Arg(1), "-x")
    /\ IF argc < 3
         THEN /\ Exit(1, "-x missing extension command.")
              /\ UNCHANGED <<argv, argc, extLoads>>
         ELSE \E loaded \in BOOLEAN :
                /\ extLoads' = Append(extLoads, Arg(2))
                /\ IF ~loaded
                     THEN /\ Exit(1, "Extension load failed")
                          /\ UNCHANGED <<argv, argc>>
                     ELSE /\ ShiftPair
                          /\ UNCHANGED <<pc, stderr, exitCode>>
    /\ UNCHANGED <<argv0, euid, modeVars, wfiVars, handler, hMode, libCalls, lastWrite,
                   spawned, chowned, stdout, sysfs, sysfs0, met, devTree>>

\* if (argc <= 1): no command is left
NoCommand ==
    /\ pc = "ext"
    /\ ~strcasecmp(Arg(1), "-x")
    /\ argc <= 1
    /\ Exit(1, "[FATAL] no command given")
    /\ UNCHANGED <<procVars, modeVars, wfiVars, extLoads, handler, hMode, libCalls,
                   lastWrite, spawned, chowned, stdout, sysfs, sysfs0, met, devTree>>

\* main has come to the table of the core commands with the command cmd.
Core(cmd) ==
    /\ pc = "ext"
    /\ ~strcasecmp(Arg(1), "-x")
    /\ argc > 1
    /\ strcasecmp(Arg(1), cmd)

----------------------------------------------------------------------------
(* The core commands *)

CoreFrame ==
    UNCHANGED <<procVars, modeVars, extLoads, chowned, sysfs, sysfs0, met, devTree>>

\* Checked with argc < n in the place of argc != n.
CheckedAtLeast(n, usage, calls) ==
    /\ IF argc < n
         THEN /\ Exit(1, usage)
              /\ UNCHANGED libCalls
         ELSE /\ libCalls' = calls
              /\ Exit(0, "")
    /\ UNCHANGED <<wfiVars, lastWrite, spawned, stdout>>
    /\ CoreFrame

\* A handler that tests argc, makes its library calls and returns to main,
\* which returns EXIT_SUCCESS.
Checked(n, usage, calls) ==
    /\ IF argc # n
         THEN /\ Exit(1, usage)
              /\ UNCHANGED libCalls
         ELSE /\ libCalls' = calls
              /\ Exit(0, "")
    /\ UNCHANGED <<wfiVars, lastWrite, spawned, stdout>>
    /\ CoreFrame

\* The library call doMode makes for a mode, <<>> for none.
ModeCall(pin, mode) ==
    IF strcasecmp(mode, "in") \/ strcasecmp(mode, "input") THEN <<"pinMode", pin, "INPUT">>
    ELSE IF strcasecmp(mode, "out") \/ strcasecmp(mode, "output") THEN <<"pinMode", pin, "OUTPUT">>
    ELSE IF strcasecmp(mode, "pwm") THEN <<"pinMode", pin, "PWM_OUTPUT">>
    ELSE IF strcasecmp(mode, "pwmTone") THEN <<"pinMode", pin, "PWM_TONE_OUTPUT">>
    ELSE IF strcasecmp(mode, "clock") THEN <<"pinMode", pin, "GPIO_CLOCK">>
    ELSE IF strcasecmp(mode, "up") THEN <<"pullUpDnControl", pin, "PUD_UP">>
    ELSE IF strcasecmp(mode, "down") THEN <<"pullUpDnControl", pin, "PUD_DOWN">>
    ELSE IF strcasecmp(mode, "tri") \/ strcasecmp(mode, "off") THEN <<"pullUpDnControl", pin, "PUD_OFF">>
    ELSE IF strcasecmp(mode, "alt0") THEN <<"pinModeAlt", pin, 4>>
    ELSE IF strcasecmp(mode, "alt1") THEN <<"pinModeAlt", pin, 5>>
    ELSE IF strcasecmp(mode, "alt2") THEN <<"pinModeAlt", pin, 6>>
    ELSE IF strcasecmp(mode, "alt3") THEN <<"pinModeAlt", pin, 7>>
    ELSE IF strcasecmp(mode, "alt4") THEN <<"pinModeAlt", pin, 3>>
    ELSE IF strcasecmp(mode, "alt5") THEN <<"pinModeAlt", pin, 2>>
    ELSE <<>>

DoMode ==
    /\ Core("mode")
    /\ Call("doMode")
    /\ IF argc # 4
         THEN /\ Exit(1, "Usage: %s mode pin mode")
              /\ UNCHANGED libCalls
       ELSE IF ModeCall(atoi(Arg(2)), Arg(3)) = <<>>
         THEN /\ Exit(1, "Invalid mode. Should be in/out/pwm/clock/up/down/tri")
              /\ UNCHANGED libCalls
       ELSE /\ libCalls' = <<ModeCall(atoi(Arg(2)), Arg(3))>>
            /\ Exit(0, "")
    /\ UNCHANGED <<wfiVars, lastWrite, spawned, stdout>>
    /\ CoreFrame

\* v: what digitalRead returns
DoRead ==
    /\ Core("read")
    /\ Call("doRead")
    /\ IF argc # 3
         THEN /\ Exit(1, "Usage: %s read pin")
              /\ UNCHANGED <<libCalls, stdout>>
         ELSE \E v \in {0, 1, 2} :
                /\ libCalls' = << <<"digitalRead", atoi(Arg(2))>> >>
                /\ stdout' = <<IF v = 0 THEN "0" ELSE "1">>
                /\ Exit(0, "")
    /\ UNCHANGED <<wfiVars, lastWrite, spawned>>
    /\ CoreFrame

DoBank ==
    /\ Core("bank")
    /\ Call("doBank")
    /\ IF argc # 3
         THEN /\ Exit(1, "Usage: %s bank <bank#>")
              /\ UNCHANGED libCalls
       ELSE IF atoi(Arg(2)) > 1
         THEN /\ Exit(1, "Bad bank number. Must be 0 or 1.")
              /\ UNCHANGED libCalls
       ELSE /\ libCalls' = << <<"digitalReadBank", atoi(Arg(2))>> >>
            /\ Exit(0, "")
    /\ UNCHANGED <<wfiVars, lastWrite, spawned, stdout>>
    /\ CoreFrame

\* The value doWrite makes of its argument.
WriteValue(a) ==
    IF strcasecmp(a, "up") \/ strcasecmp(a, "on") THEN 1
    ELSE IF strcasecmp(a, "down") \/ strcasecmp(a, "off") THEN 0
    ELSE atoi(a)

DoWrite ==
    /\ Core("write")
    /\ Call("doWrite")
    /\ IF argc # 4
         THEN /\ Exit(1, "Usage: %s write pin value")
              /\ UNCHANGED <<libCalls, lastWrite>>
         ELSE LET level == IF WriteValue(Arg(3)) = 0 THEN "LOW" ELSE "HIGH"
              IN  /\ libCalls' = << <<"digitalWrite", atoi(Arg(2)), level>> >>
                  /\ lastWrite' = level
                  /\ Exit(0, "")
    /\ UNCHANGED <<wfiVars, spawned, stdout>>
    /\ CoreFrame

DoPwm ==
    /\ Core("pwm")
    /\ Call("doPwm")
    /\ Checked(4, "Usage: %s pwm <pin> <value>",
               << <<"pwmWrite", atoi(Arg(2)), atoi(Arg(3))>> >>)

DoAwrite ==
    /\ Core("awrite")
    /\ Call("doAwrite")
    /\ Checked(4, "Usage: %s awrite pin value",
               << <<"analogWrite", atoi(Arg(2)), atoi(Arg(3))>> >>)

DoAread ==
    /\ Core("aread")
    /\ Call("doAread")
    /\ Checked(3, "Usage: %s aread pin", << <<"analogRead", atoi(Arg(2))>> >>)

\* v: what digitalRead returns
DoToggle ==
    /\ Core("toggle")
    /\ Call("doToggle")
    /\ IF argc # 3
         THEN /\ Exit(1, "Usage: %s toggle pin")
              /\ UNCHANGED <<libCalls, lastWrite>>
         ELSE \E v \in {0, 1} :
                LET level == IF v = 0 THEN "HIGH" ELSE "LOW"
                IN  /\ libCalls' = << <<"digitalRead", atoi(Arg(2))>>,
                                      <<"digitalWrite", atoi(Arg(2)), level>> >>
                    /\ lastWrite' = level
                    /\ Exit(0, "")
    /\ UNCHANGED <<wfiVars, spawned, stdout>>
    /\ CoreFrame

\* doBlink up to its loop, which never ends
DoBlink ==
    /\ Core("blink")
    /\ Call("doBlink")
    /\ IF argc # 3
         THEN /\ Exit(1, "Usage: %s blink pin")
              /\ UNCHANGED libCalls
         ELSE /\ libCalls' = << <<"pinMode", atoi(Arg(2)), "OUTPUT">> >>
              /\ pc' = "blinking"
              /\ UNCHANGED <<stderr, exitCode>>
    /\ UNCHANGED <<wfiVars, lastWrite, spawned, stdout>>
    /\ CoreFrame

\* One turn of for (;;): digitalWrite (pin, !digitalRead (pin))
Blink ==
    /\ pc = "blinking"
    /\ \E v \in {0, 1} : lastWrite' = IF v = 0 THEN "HIGH" ELSE "LOW"
    /\ UNCHANGED <<pc, procVars, modeVars, wfiVars, extLoads, handler, hMode, libCalls,
                   spawned, chowned, stdout, stderr, exitCode, sysfs, sysfs0, met, devTree>>

\* pwm-bal and pwm-ms: main calls doPwmMode with the mode, argc is not passed
DoPwmMode ==
    /\ Core("pwm-bal") \/ Core("pwm-ms")
    /\ Call("doPwmMode")
    /\ libCalls' = << <<"pwmSetMode",
                        IF strcasecmp(Arg(1), "pwm-bal") THEN "PWM_MODE_BAL" ELSE "PWM_MODE_MS">> >>
    /\ Exit(0, "")
    /\ UNCHANGED <<wfiVars, lastWrite, spawned, stdout>>
    /\ CoreFrame

DoPwmRange ==
    /\ Core("pwmr")
    /\ Call("doPwmRange")
    /\ IF argc # 3
         THEN /\ Exit(1, "Usage: %s pwmr <range>")
              /\ UNCHANGED libCalls
       ELSE IF atoi(Arg(2)) = 0
         THEN /\ Exit(1, "range must be > 0")
              /\ UNCHANGED libCalls
       ELSE /\ libCalls' = << <<"pwmSetRange", atoi(Arg(2))>> >>
            /\ Exit(0, "")
    /\ UNCHANGED <<wfiVars, lastWrite, spawned, stdout>>
    /\ CoreFrame

DoPwmClock ==
    /\ Core("pwmc")
    /\ Call("doPwmClock")
    /\ IF argc # 3
         THEN /\ Exit(1, "Usage: %s pwmc <clock>")
              /\ UNCHANGED libCalls
       ELSE IF atoi(Arg(2)) < 1 \/ atoi(Arg(2)) > 4095
         THEN /\ Exit(1, "clock must be between 0 and 4096")
              /\ UNCHANGED libCalls
       ELSE /\ libCalls' = << <<"pwmSetClock", atoi(Arg(2))>> >>
            /\ Exit(0, "")
    /\ UNCHANGED <<wfiVars, lastWrite, spawned, stdout>>
    /\ CoreFrame

DoPwmTone ==
    /\ Core("pwmTone")
    /\ Call("doPwmTone")
    /\ Checked(4, "Usage: %s pwmTone <pin> <freq>",
               << <<"pwmToneWrite", atoi(Arg(2)), atoi(Arg(3))>> >>)

DoPadDrive ==
    /\ Core("drive")
    /\ Call("doPadDrive")
    /\ IF argc # 4
         THEN /\ Exit(1, "Usage: %s drive group value")
              /\ UNCHANGED libCalls
       ELSE IF atoi(Arg(2)) < 0 \/ atoi(Arg(2)) > 2
         THEN /\ Exit(1, "drive group not 0, 1 or 2")
              /\ UNCHANGED libCalls
       ELSE IF atoi(Arg(3)) < 0 \/ atoi(Arg(3)) > 7
         THEN /\ Exit(1, "drive value not 0-7")
              /\ UNCHANGED libCalls
       ELSE /\ libCalls' = << <<"setPadDrive", atoi(Arg(2)), atoi(Arg(3))>> >>
            /\ Exit(0, "")
    /\ UNCHANGED <<wfiVars, lastWrite, spawned, stdout>>
    /\ CoreFrame

\* readall, nreadall and pins: the report of readall.c, called without arguments
DoReadall ==
    /\ Core("readall") \/ Core("nreadall") \/ Core("pins")
    /\ Call("doReadall")
    /\ libCalls' = << <<"doReadall">> >>
    /\ Exit(0, "")
    /\ UNCHANGED <<wfiVars, lastWrite, spawned, stdout>>
    /\ CoreFrame

\* qmode: the report of readall.c, which is handed argc and argv
DoQmode ==
    /\ Core("qmode")
    /\ Call("doQmode")
    /\ libCalls' = << <<"doQmode">> >>
    /\ \E code \in {0, 1} : Exit(code, "")
    /\ UNCHANGED <<wfiVars, lastWrite, spawned, stdout>>
    /\ CoreFrame

\* found: i2cdetect is in the search path.  modules: /proc/modules opens.
\* i2c_dev: the module is listed.  layout: what piGpioLayout returns.
DoI2Cdetect ==
    /\ Core("i2cdetect") \/ Core("i2cd")
    /\ Call("doI2Cdetect")
    /\ libCalls' = << <<"piGpioLayout">> >>
    /\ \E found \in BOOLEAN, modules \in BOOLEAN, i2c_dev \in BOOLEAN, layout \in {1, 2} :
         /\ met' = NoExecutable(found)
         /\ IF ~found
              THEN /\ Exit(0, "Unable to find i2cdetect command")
                   /\ UNCHANGED spawned
            ELSE IF ~modules
              THEN /\ Exit(1, "Unable to check /proc/modules")
                   /\ UNCHANGED spawned
            ELSE IF ~i2c_dev
              THEN /\ Exit(0, "The I2C kernel module(s) are not loaded.")
                   /\ UNCHANGED spawned
            ELSE /\ spawned' = << <<"i2cdetect", "-y", IF layout = 1 THEN 0 ELSE 1>> >>
                 /\ Exit(0, "")
    /\ UNCHANGED <<wfiVars, lastWrite, stdout>>
    /\ UNCHANGED <<procVars, modeVars, extLoads, chowned, sysfs, sysfs0, devTree>>

DoReset ==
    /\ Core("reset")
    /\ Call("doReset")
    /\ stdout' = <<"GPIO Reset is dangerous and has been removed from the gpio command.">>
    /\ Exit(0, "")
    /\ UNCHANGED <<wfiVars, libCalls, lastWrite, spawned>>
    /\ CoreFrame

DoWriteByte ==
    /\ Core("wb")
    /\ Call("doWriteByte")
    /\ Checked(3, "Usage: %s wb value", << <<"digitalWriteByte", atoi(Arg(2))>> >>)

\* rbx and rbd.  val: what digitalReadByte returns
DoReadByte ==
    /\ Core("rbx") \/ Core("rbd")
    /\ Call("doReadByte")
    /\ IF argc # 2
         THEN /\ Exit(1, "Usage: %s rbx|rbd")
              /\ UNCHANGED <<libCalls, stdout>>
         ELSE \E val \in {0, 60} :
                /\ libCalls' = << <<"digitalReadByte">> >>
                /\ stdout' = << <<IF strcasecmp(Arg(1), "rbx") THEN "%02X" ELSE "%d", val>> >>
                /\ Exit(0, "")
    /\ UNCHANGED <<wfiVars, lastWrite, spawned>>
    /\ CoreFrame

DoClock ==
    /\ Core("clock")
    /\ Call("doClock")
    /\ Checked(4, "Usage: %s clock <pin> <freq>",
               << <<"gpioClockSet", atoi(Arg(2)), atoi(Arg(3))>> >>)

CoreCommands ==
    {"mode", "read", "bank", "write", "pwm", "awrite", "aread", "toggle", "blink",
     "pwm-bal", "pwm-ms", "pwmr", "pwmc", "pwmTone", "drive", "readall", "nreadall",
     "pins", "qmode", "i2cdetect", "i2cd", "reset", "wb", "rbx", "rbd", "clock",
     "wfi", "mwfi"}

UnknownCommand ==
    /\ pc = "ext"
    /\ ~strcasecmp(Arg(1), "-x")
    /\ argc > 1
    /\ \A c \in CoreCommands : ~strcasecmp(Arg(1), c)
    /\ Exit(1, "[FATAL] Unknown command")
    /\ UNCHANGED <<wfiVars, handler, hMode, libCalls, lastWrite, spawned, stdout>>
    /\ CoreFrame

----------------------------------------------------------------------------
(* wfi and mwfi *)

\* The edge mode wfi and mwfi make of their argument, "" for none.
EdgeMode(a) ==
    IF strcasecmp(a, "rising") THEN "INT_EDGE_RISING"
    ELSE IF strcasecmp(a, "falling") THEN "INT_EDGE_FALLING"
    ELSE IF strcasecmp(a, "both") THEN "INT_EDGE_BOTH"
    ELSE ""

\* atoi over the tokens of a list
RECURSIVE AtoiAll(_)
AtoiAll(tokens) ==
    IF tokens = <<>> THEN <<>> ELSE <<atoi(Head(tokens))>> \o AtoiAll(Tail(tokens))

\* A wait handler up to the registration of wfi with the library.
\* registered: the registration returns 0 or more.
Register(usage, fn, pins, count) ==
    /\ IF argc # 4
         THEN /\ Exit(1, usage)
              /\ UNCHANGED <<libCalls, isrOn, n_pins, pinList>>
       ELSE IF EdgeMode(Arg(3)) = ""
         THEN /\ Exit(1, "wfi: Invalid mode. Should be rising, falling or both")
              /\ UNCHANGED <<libCalls, isrOn, n_pins, pinList>>
       ELSE \E registered \in BOOLEAN :
              /\ libCalls' = << <<fn, pins, EdgeMode(Arg(3))>> >>
              /\ IF ~registered
                   THEN /\ Exit(1, "wfi: Unable to setup ISR")
                        /\ UNCHANGED <<isrOn, n_pins, pinList>>
                   ELSE /\ isrOn' = TRUE
                        /\ pinList' = pins
                        /\ n_pins' = count
                        /\ pc' = "wfi_reset"
                        /\ UNCHANGED <<stderr, exitCode>>
    /\ UNCHANGED <<nInts, delivered, edgePins, isrTmp, lastWrite, spawned, stdout>>
    /\ CoreFrame

DoWfi ==
    /\ Core("wfi")
    /\ Call("doWfi")
    /\ Register("Usage: %s wfi pin mode", "wiringPiISR", <<atoi(Arg(2))>>, 1)

DoMWfi ==
    /\ Core("mwfi")
    /\ Call("doMWfi")
    /\ Register("Usage: %s mwfi pin[,pin...] mode", "wiringPiISRmulti",
                AtoiAll(strtok(Arg(2))), Len(strtok(Arg(2))))

WaitFrame ==
    UNCHANGED <<procVars, modeVars, extLoads, handler, hMode, libCalls, lastWrite,
                spawned, chowned, stdout, sysfs, sysfs0, met, devTree>>

\* nInts = 0; after the registration
ResetCount ==
    /\ pc = "wfi_reset"
    /\ nInts' = 0
    /\ pc' = "wfi_poll"
    /\ UNCHANGED <<isrOn, n_pins, pinList, delivered, edgePins, isrTmp, stderr, exitCode>>
    /\ WaitFrame

\* EndWait with the loop of doWfi, while (nInts < 1), in doMWfi as well.
EndWaitAfterOne ==
    /\ pc = "wfi_poll"
    /\ ~(nInts < 1)
    /\ Exit(0, "")
    /\ UNCHANGED wfiVars
    /\ WaitFrame

\* while (nInts < n_pins) delayMs (100); the loop is left, the handler and
\* main return
EndWait ==
    /\ pc = "wfi_poll"
    /\ ~(nInts < n_pins)
    /\ Exit(0, "")
    /\ UNCHANGED wfiVars
    /\ WaitFrame

\* The library's interrupt thread t sees an edge on pin and calls wfi, which
\* begins nInts++ by reading nInts.
EdgeRead(t, pin) ==
    /\ pc \in {"wfi_reset", "wfi_poll"}
    /\ isrOn
    /\ delivered < MaxEdges
    /\ isrTmp[t] < 0
    /\ isrTmp' = [isrTmp EXCEPT ![t] = nInts]
    /\ delivered' = delivered + 1
    /\ edgePins' = edgePins \cup {pin}
    /\ UNCHANGED <<pc, nInts, isrOn, n_pins, pinList, stderr, exitCode>>
    /\ WaitFrame

\* EdgeWrite with a callback that counts every edge twice.
EdgeWriteTwice(t) ==
    /\ pc \in {"wfi_reset", "wfi_poll"}
    /\ isrTmp[t] >= 0
    /\ nInts' = isrTmp[t] + 2
    /\ isrTmp' = [isrTmp EXCEPT ![t] = 0 - 1]
    /\ UNCHANGED <<pc, isrOn, n_pins, pinList, delivered, edgePins, stderr, exitCode>>
    /\ WaitFrame

\* wfi in thread t ends nInts++ by writing nInts.
EdgeWrite(t) ==
    /\ pc \in {"wfi_reset", "wfi_poll"}
    /\ isrTmp[t] >= 0
    /\ nInts' = isrTmp[t] + 1
    /\ isrTmp' = [isrTmp EXCEPT ![t] = 0 - 1]
    /\ UNCHANGED <<pc, isrOn, n_pins, pinList, delivered, edgePins, stderr, exitCode>>
    /\ WaitFrame

wfi ==
    \E t \in 1..IsrThreads :
       \/ \E i \in 1..Len(pinList) : EdgeRead(t, pinList[i])
       \/ EdgeWrite(t)

----------------------------------------------------------------------------
(* The program *)

Next ==
    \/ Invoke \/ Reap
    \/ NoArgs \/ Help \/ Version \/ Warranty \/ NotRoot
    \/ DoExports \/ DoExport \/ DoEdge \/ DoUnexport \/ DoUnexportall
    \/ DoLoad \/ DoUnLoad \/ DoUsbP \/ AllReadall
    \/ NumberingBP \/ NumberingWZ \/ LoadExtension \/ NoCommand
    \/ DoMode \/ DoRead \/ DoBank \/ DoWrite \/ DoPwm \/ DoAwrite \/ DoAread
    \/ DoToggle \/ DoBlink \/ Blink
    \/ DoPwmMode \/ DoPwmRange \/ DoPwmClock \/ DoPwmTone \/ DoPadDrive
    \/ DoReadall \/ DoQmode \/ DoI2Cdetect \/ DoReset
    \/ DoWriteByte \/ DoReadByte \/ DoClock
    \/ DoWfi \/ DoMWfi \/ ResetCount \/ EndWait \/ wfi
    \/ UnknownCommand

Spec == Init /\ [][Next]_vars

\* The scheduler lets the command's thread go on (the statement after the
\* registration, the test of the polling loop) and lets an interrupt thread
\* that has begun nInts++ finish it.  Whether an edge comes is up to the
\* outside world.
LiveSpec ==
    /\ Spec
    /\ WF_vars(ResetCount)
    /\ WF_vars(EndWait)
    /\ \A t \in 1..IsrThreads : WF_vars(EdgeWrite(t))

----------------------------------------------------------------------------
(* The claims *)

\* The handlers main calls from the table of the core commands.
CoreHandlers ==
    {"doMode", "doRead", "doBank", "doWrite", "doPwm", "doAwrite", "doAread",
     "doToggle", "doBlink", "doPwmMode", "doPwmRange", "doPwmClock", "doPwmTone",
     "doPadDrive", "doReadall", "doQmode", "doI2Cdetect", "doReset", "doWriteByte",
     "doReadByte", "doClock", "doWfi", "doMWfi"}

\* The scheme a leading flag names; GPIO when the first argument is no flag.
FlagScheme(a) ==
    IF Lower(a) = "-b" THEN WPI_MODE_GPIO
    ELSE IF Lower(a) = "-p" THEN WPI_MODE_PHYS
    ELSE IF Lower(a) = "-w" THEN WPI_MODE_PINS
    ELSE IF Lower(a) = "-z" THEN WPI_MODE_UNINITIALISED
    ELSE WPI_MODE_GPIO

\* C1: whenever a handler of the core command table is called, wpMode holds
\* the scheme named by the leading flag of the command line: GPIO for -b,
\* PHYS for -p, PINS for -w, UNINITIALISED for -z, GPIO without a flag.
C1_SchemeOfLeadingFlag ==
    handler \in CoreHandlers => hMode = FlagScheme(argv0[2])

\* C2: within one invocation wpMode is assigned exactly once before a core
\* handler runs, and once assigned its value never changes.
C2_AssignedOnceThenFixed ==
    /\ [][(wpAssigns >= 1 /\ pc' # "idle") => wpMode' = wpMode]_vars
    /\ [](handler \in CoreHandlers => wpAssigns = 1)

\* The first arguments that main answers before the test of geteuid ().
AnsweredBeforePrivilege(a) ==
    \/ Lower(a) \in {"h", "-h", "-help", "--help", "help"}
    \/ a = "-v"
    \/ Lower(a) = "-warranty"

\* C3: help, -v and -warranty end with exit code 0 whatever the effective
\* user id; with any other first argument and an effective user id other
\* than 0 the process gets no further than the privilege test: it ends with
\* exit code 1, and nothing was written to sysfs, no setup function and no
\* extension loader was called, nothing was launched and no handler ran.
C3_PrivilegeBeforeAnyEffect ==
    (pc # "idle" /\ Len(argv0) > 1) =>
        IF AnsweredBeforePrivilege(argv0[2])
          THEN pc = "done" => exitCode = 0
          ELSE euid # 0 =>
                 /\ pc \in {"main", "done"}
                 /\ pc = "done" => exitCode = 1
                 /\ sysfs = sysfs0
                 /\ setupCalls = <<>>
                 /\ extLoads = <<>>
                 /\ libCalls = <<>>
                 /\ spawned = <<>>
                 /\ chowned = {}
                 /\ handler = "none"

\* A process without privilege was started with export 4 out and has ended
\* with exit code 1.
C3_Witness ==
    /\ pc = "done"
    /\ euid # 0
    /\ argv0 = <<"gpio", "export", "4", "out">>
    /\ exitCode = 1

\* The handler of each /sys/class/gpio command.
SysfsHandler ==
    [ c \in SysfsCommands |->
        CASE c = "exports" -> "doExports"
          [] c = "export" -> "doExport"
          [] c = "edge" -> "doEdge"
          [] c = "unexport" -> "doUnexport"
          [] c = "unexportall" -> "doUnexportall" ]

\* C4: a privileged process whose command is exports, export, edge, unexport
\* or unexportall, in any case of the letters, ends having run the handler
\* of that command, and no invocation that runs one of these handlers calls
\* a setup function of the library, the extension loader or the library.
C4_SysfsWithoutSetup ==
    /\ handler \in {SysfsHandler[c] : c \in SysfsCommands} =>
          setupCalls = <<>> /\ extLoads = <<>> /\ libCalls = <<>>
    /\ (pc = "done" /\ euid = 0 /\ Len(argv0) > 1 /\ Lower(argv0[2]) \in SysfsCommands) =>
          /\ handler = SysfsHandler[Lower(argv0[2])]
          /\ setupCalls = <<>>
          /\ extLoads = <<>>

\* EDGE 4 RISING has run doEdge to its end.
C4_Witness ==
    /\ pc = "done"
    /\ handler = "doEdge"
    /\ argv0[2] = "EDGE"
    /\ exitCode = 0

EdgeModes == {"none", "rising", "falling", "both"}

\* doEdge has ended after it was called with a pin and a mode.
EdgeDone == pc = "done" /\ handler = "doEdge" /\ argc = 4

\* C5 as claimed: edge accepts the mode only when it is exactly one of
\* none, rising, falling, both; any other token, RISING among them, ends
\* with exit code 1.
C5_EdgeModeExact ==
    (EdgeDone /\ Arg(3) \notin EdgeModes) => exitCode = 1

\* C5 as amended: edge accepts the mode when it is one of none, rising,
\* falling, both in any case of the letters and writes the lower-case token
\* to the edge attribute; it rejects every other token, and only those, as
\* an invalid mode with exit code 1.
C5_EdgeModeAnyCase ==
    EdgeDone =>
        /\ Lower(Arg(3)) \notin EdgeModes => exitCode = 1
        /\ stderr = "Invalid mode. Should be none, rising, falling or both" =>
              Lower(Arg(3)) \notin EdgeModes /\ exitCode = 1
        /\ exitCode = 0 =>
              /\ Lower(Arg(3)) \in EdgeModes
              /\ sysfs[atoi(Arg(2))].edge = Lower(Arg(3))

\* EDGE 4 RISING was accepted: rising is in the edge attribute of pin 4.
C5_Witness ==
    /\ EdgeDone
    /\ Arg(3) = "RISING"
    /\ exitCode = 0
    /\ sysfs[4].edge = "rising"

\* C6: when edge rejects an invalid mode, no file was written: the sysfs
\* entries are as they were before the command.
C6_RejectedEdgeWritesNothing ==
    (EdgeDone /\ stderr = "Invalid mode. Should be none, rising, falling or both") =>
        sysfs = sysfs0

\* C7: after edge N rising has completed, whatever the pin's entry was
\* before, the pin is exported and its direction attribute is in.
C7_EdgeRisingDirectionIn ==
    (EdgeDone /\ Arg(3) = "rising" /\ exitCode = 0) =>
        /\ sysfs[atoi(Arg(2))].exported
        /\ sysfs[atoi(Arg(2))].direction = "in"

\* edge 4 rising has completed on a pin that was exported with direction high.
C7_Witness ==
    /\ EdgeDone
    /\ Arg(3) = "rising"
    /\ exitCode = 0
    /\ sysfs0[4].exported
    /\ sysfs0[4].direction = "high"
    /\ sysfs[4].direction = "in"

\* The entry export N out leaves for a pin that was not exported.
ExportedOut == [exported |-> TRUE, direction |-> "out", edge |-> "none"]

\* C8: export N out, completed on a pin that was not exported, leaves the
\* pin exported with direction out; unexport N, completed on the pin as that
\* export left it, leaves the pin unexported, as it was at first.
C8_ExportThenUnexport ==
    /\ (pc = "done" /\ handler = "doExport" /\ argc = 4 /\ Arg(3) = "out" /\ exitCode = 0
          /\ ~sysfs0[atoi(Arg(2))].exported) =>
             sysfs[atoi(Arg(2))] = ExportedOut
    /\ (pc = "done" /\ handler = "doUnexport" /\ argc = 3 /\ exitCode = 0
          /\ atoi(Arg(2)) \in Pins /\ sysfs0[atoi(Arg(2))] = ExportedOut) =>
             sysfs[atoi(Arg(2))] = Unexported

\* unexport 4 has completed on pin 4 as export 4 out leaves it.
C8_Witness ==
    /\ pc = "done"
    /\ handler = "doUnexport"
    /\ exitCode = 0
    /\ Arg(2) = "4"
    /\ sysfs0[4] = ExportedOut
    /\ ~sysfs[4].exported

\* C9: mwfi with a list of n pins and a valid mode returns only when wfi
\* has been called at least n times since it was registered.
C9_MWfiReturnsAfterNEdges ==
    (pc = "done" /\ handler = "doMWfi" /\ exitCode = 0) =>
        /\ n_pins = Len(strtok(Arg(2)))
        /\ delivered >= Len(strtok(Arg(2)))

\* mwfi 4,17,27 both has returned after edges on three different pins.
C9_Witness ==
    /\ pc = "done"
    /\ handler = "doMWfi"
    /\ exitCode = 0
    /\ Arg(2) = "4,17,27"
    /\ delivered = 3
    /\ edgePins = {4, 17, 27}

\* The argument count (argc, the program name and the command included)
\* that the command of each handler requires.
RequiredArgc ==
    [ h \in {"doMode", "doRead", "doBank", "doWrite", "doPwm", "doAwrite", "doAread",
             "doToggle", "doBlink", "doPwmMode", "doPwmRange", "doPwmClock", "doPwmTone",
             "doPadDrive", "doReadall", "doI2Cdetect", "doReset", "doWriteByte",
             "doReadByte", "doClock", "doWfi", "doMWfi", "doExports", "doExport",
             "doEdge", "doUnexport", "doUnexportall", "doUsbP"} |->
        IF h \in {"doMode", "doWrite", "doPwm", "doAwrite", "doPwmTone", "doPadDrive",
                  "doClock", "doWfi", "doMWfi", "doExport", "doEdge"} THEN 4
        ELSE IF h \in {"doRead", "doBank", "doAread", "doToggle", "doBlink", "doPwmRange",
                       "doPwmClock", "doWriteByte", "doUnexport", "doUsbP"} THEN 3
        ELSE 2 ]

\* The usage line of each handler that prints one.
UsageLine ==
    [ h \in {"doMode", "doRead", "doBank", "doWrite", "doPwm", "doAwrite", "doAread",
             "doToggle", "doBlink", "doPwmRange", "doPwmClock", "doPwmTone",
             "doPadDrive", "doWriteByte", "doReadByte", "doClock", "doWfi", "doMWfi",
             "doExport", "doEdge", "doUnexport", "doUsbP"} |->
        CASE h = "doMode" -> "Usage: %s mode pin mode"
          [] h = "doRead" -> "Usage: %s read pin"
          [] h = "doBank" -> "Usage: %s bank <bank#>"
          [] h = "doWrite" -> "Usage: %s write pin value"
          [] h = "doPwm" -> "Usage: %s pwm <pin> <value>"
          [] h = "doAwrite" -> "Usage: %s awrite pin value"
          [] h = "doAread" -> "Usage: %s aread pin"
          [] h = "doToggle" -> "Usage: %s toggle pin"
          [] h = "doBlink" -> "Usage: %s blink pin"
          [] h = "doPwmRange" -> "Usage: %s pwmr <range>"
          [] h = "doPwmClock" -> "Usage: %s pwmc <clock>"
          [] h = "doPwmTone" -> "Usage: %s pwmTone <pin> <freq>"
          [] h = "doPadDrive" -> "Usage: %s drive group value"
          [] h = "doWriteByte" -> "Usage: %s wb value"
          [] h = "doReadByte" -> "Usage: %s rbx|rbd"
          [] h = "doClock" -> "Usage: %s clock <pin> <freq>"
          [] h = "doWfi" -> "Usage: %s wfi pin mode"
          [] h = "doMWfi" -> "Usage: %s mwfi pin[,pin...] mode"
          [] h = "doExport" -> "Usage: %s export pin mode"
          [] h = "doEdge" -> "Usage: %s edge pin mode"
          [] h = "doUnexport" -> "Usage: %s unexport pin"
          [] h = "doUsbP" -> "Usage: %s usbp high|low" ]

\* C10 as claimed: every handler ends with exit code 1 and a usage line
\* when the argument count is not the one its command requires, the
\* commands without argument given an extra argument included.
C10_EveryHandlerChecksArgc ==
    (handler \in DOMAIN RequiredArgc /\ argc # RequiredArgc[handler]) =>
        /\ pc = "done"
        /\ exitCode = 1
        /\ stderr \in {UsageLine[h] : h \in DOMAIN UsageLine}

\* C10 as amended: every handler that takes arguments ends with exit code
\* 1 and the usage line of its command, having done nothing else, when the
\* argument count is not the one it requires; the handlers of pwm-bal,
\* pwm-ms, reset and exports do not look at the argument count and end
\* with exit code 0 whatever it is.
C10_HandlersWithArgumentsCheckArgc ==
    /\ (handler \in DOMAIN UsageLine /\ argc # RequiredArgc[handler]) =>
          /\ pc = "done"
          /\ exitCode = 1
          /\ stderr = UsageLine[handler]
          /\ libCalls = <<>>
          /\ sysfs = sysfs0
    /\ (pc = "done" /\ handler \in {"doPwmMode", "doReset", "doExports"}) =>
          exitCode = 0

\* mode was given 3 arguments and has ended with exit code 1 and its usage line.
C10_Witness ==
    /\ pc = "done"
    /\ handler = "doMode"
    /\ argc = 3
    /\ exitCode = 1
    /\ stderr = "Usage: %s mode pin mode"

----------------------------------------------------------------------------
(* C11: doBank *)

\* C11: doBank has called digitalReadBank only when the bank argument
\* converts to 0 or 1; for every other integer, 2 and above and the
\* negative values, it has ended with exit code 1 and has read no bank.
C11_BankReadOnlyForZeroOrOne ==
    (handler = "doBank" /\ argc = 3) =>
        IF atoi(Arg(2)) \in {0, 1}
          THEN libCalls = << <<"digitalReadBank", atoi(Arg(2))>> >> /\ exitCode = 0
          ELSE libCalls = <<>> /\ exitCode = 1

----------------------------------------------------------------------------
(* C12: load, unload and i2cdetect without their executable *)

\* C12: when load, unload or i2cdetect has found its executable in none of
\* the search directories the process has ended with exit code 1 and
\* nothing was handed to system (); and when load has found the second
\* module still not listed after its modprobe attempts the process has
\* ended with exit code 1 and no owner was changed.
C12_MissingExecutableIsFatal ==
    /\ (handler \in {"doLoad", "doUnLoad", "doI2Cdetect"} /\ "no executable" \in met) =>
          /\ pc = "done"
          /\ exitCode = 1
          /\ spawned = <<>>
    /\ (handler = "doLoad" /\ "module2 missing" \in met) =>
          /\ pc = "done"
          /\ exitCode = 1
          /\ chowned = {}

----------------------------------------------------------------------------
(* C13: load and unload on a board with the device tree *)

\* C13: on a board that has /proc/device-tree, load and unload have ended
\* with exit code 1 and the device tree message whatever their arguments,
\* a missing or an invalid module argument included, and have not looked
\* for the executable or at the module list, have handed nothing to
\* system () and have changed no owner.
C13_DevTreeStopsLoadAndUnload ==
    (handler \in {"doLoad", "doUnLoad"} /\ devTree) =>
        /\ pc = "done"
        /\ exitCode = 1
        /\ stderr = "Unable to load/unload modules as this Pi has the device tree enabled."
        /\ met = {}
        /\ stdout = <<>>
        /\ spawned = <<>>
        /\ chowned = {}

\* load was given no module on a board with the device tree and has ended
\* with the device tree message, not with its usage line.
C13_Witness ==
    /\ pc = "done"
    /\ handler = "doLoad"
    /\ devTree
    /\ argc = 2
    /\ exitCode = 1
    /\ stderr = "Unable to load/unload modules as this Pi has the device tree enabled."

----------------------------------------------------------------------------
(* C14: the fields of list exports *)

\* A content with one trailing newline removed.
StripNewline(content) ==
    IF content # <<>> /\ content[Len(content)] = "\n"
      THEN SubSeq(content, 1, Len(content) - 1)
      ELSE content

\* C14: in every line list exports has printed, for each of the direction,
\* value and edge attributes, the field is "?" when the read returned no
\* byte and is otherwise the content read with one trailing newline removed.
C14_ExportsFieldOfEachRead ==
    (pc = "done" /\ handler = "doExports") =>
        \A n \in 1..Len(stdout) : \A k \in 1..3 :
            stdout[n].field[k] = IF stdout[n].read[k] = <<>>
                                   THEN <<"?">>
                                   ELSE StripNewline(stdout[n].read[k])

----------------------------------------------------------------------------
(* C15: who writes nInts *)

\* C15: from the registration of the callback until the command returns,
\* no step of the command's own thread (the steps that move pc) changes
\* nInts: the counter is written by the callback only, and no edge that was
\* counted is discarded.
C15_OnlyCallbackWritesCounter ==
    [][(isrOn /\ pc \in {"wfi_reset", "wfi_poll"} /\ pc' # pc) => nInts' = nInts]_vars

----------------------------------------------------------------------------
(* C16: what mwfi waits for *)

\* The pins handed to the registration.
ListedPins == {pinList[i] : i \in 1..Len(pinList)}

\* C16 as claimed: mwfi has returned only after an edge on every pin of
\* its list; it has not returned while a listed pin has had no edge.
C16_MWfiReturnsAfterEveryPin ==
    (pc = "done" /\ handler = "doMWfi" /\ exitCode = 0) =>
        ListedPins \subseteq edgePins

\* C16 as amended: mwfi has returned only when the counter has reached the
\* length of the list, the counter holding no more than the number of edges
\* the callback was called for on the listed pins taken together; which of
\* the listed pins the edges were on does not matter.
C16_MWfiReturnsOnTotalCount ==
    (pc = "done" /\ handler = "doMWfi" /\ exitCode = 0) =>
        /\ nInts >= n_pins
        /\ nInts <= delivered
        /\ edgePins \subseteq ListedPins

\* mwfi 4,17 both has returned after edges on pin 4 alone.
C16_Witness ==
    /\ pc = "done"
    /\ handler = "doMWfi"
    /\ exitCode = 0
    /\ Arg(2) = "4,17"
    /\ edgePins = {4}
    /\ nInts = 2

----------------------------------------------------------------------------
(* C17: the -x pairs *)

\* 1 when the command line starts with a numbering flag, 0 otherwise.
LeadingFlags(a) ==
    IF Len(a) >= 2 /\ Lower(a[2]) \in {"-b", "-p", "-w", "-z"} THEN 1 ELSE 0

\* The specs of the pairs -x spec that stand in a from position i on.
RECURSIVE PairSpecs(_, _)
PairSpecs(a, i) ==
    IF i + 1 <= Len(a) /\ Lower(a[i]) = "-x"
      THEN <<a[i + 1]>> \o PairSpecs(a, i + 2)
      ELSE <<>>

\* The command token and its arguments: what follows the flag and the pairs.
CommandOf(a) ==
    SubSeq(a, 2 + LeadingFlags(a) + 2 * Len(PairSpecs(a, 2 + LeadingFlags(a))), Len(a))

\* C17: when a handler of the core command table runs, the extension loader
\* has been called once for each pair -x spec of the command line, in the
\* order of the command line, and the handler sees the command at argv[1]
\* followed by its arguments in their order, with argc reduced by one for
\* the flag and by two for each pair; and when nothing follows the flag and
\* the pairs the process ends with exit code 1 and no handler has run.
C17_PairsLoadedThenCommand ==
    /\ handler \in CoreHandlers =>
          /\ extLoads = PairSpecs(argv0, 2 + LeadingFlags(argv0))
          /\ argc = 1 + Len(CommandOf(argv0))
          /\ \A i \in 1..Len(CommandOf(argv0)) : Arg(i) = CommandOf(argv0)[i]
    /\ (pc \notin {"idle", "main", "numbering", "ext"} /\ wpAssigns >= 1
          /\ CommandOf(argv0) = <<>>) =>
          /\ handler = "none"
          /\ pc = "done"
          /\ exitCode = 1

\* read 4 has run after -p and two pairs: both specs were loaded in their
\* order and doRead sees three arguments.
C17_Witness ==
    /\ handler = "doRead"
    /\ argv0 = <<"gpio", "-p", "-x", "ext1", "-X", "ext2", "read", "4">>
    /\ extLoads = <<"ext1", "ext2">>
    /\ argc = 3
    /\ Arg(1) = "read"
    /\ Arg(2) = "4"

\* Nothing followed the pair of -w -x ext1: there is no handler and the
\* exit code is 1.
C17_NoCommandWitness ==
    /\ pc = "done"
    /\ argv0 = <<"gpio", "-w", "-x", "ext1">>
    /\ extLoads = <<"ext1">>
    /\ handler = "none"
    /\ exitCode = 1

----------------------------------------------------------------------------
(* C18: wfi returns *)

\* C18: once wfi has been registered and called for at least one edge, be
\* it before the polling loop has started, doWfi returns in the end.
C18_WfiReturnsAfterAnEdge ==
    (handler = "doWfi" /\ isrOn /\ delivered >= 1) ~> (pc = "done")

----------------------------------------------------------------------------
(* C19: unexportall and the range of list exports *)

\* C19: when unexportall has completed, whatever pins were exported before,
\* no pin of the range 0 .. 63 that list exports scans is exported: list
\* exports would print no line.
C19_UnexportallLeavesNothingListed ==
    (pc = "done" /\ handler = "doUnexportall" /\ exitCode = 0) =>
        /\ \A pin \in Pins : (0 <= pin /\ pin < 64) => ~sysfs[pin].exported
        /\ ExportLines(sysfs, 0, {}, "0") = <<>>

----------------------------------------------------------------------------
(* C20: export with a mode it rejects *)

\* C20: when export has rejected its mode as invalid the process has ended
\* with exit code 1 and the sysfs entries are as they were before the
\* command: a pin that was not exported is not exported, and the direction
\* of a pin that was exported is the one it had.
C20_RejectedExportWritesNothing ==
    (pc = "done" /\ handler = "doExport" /\ argc = 4
       /\ stderr = "Invalid mode. Should be in, out, high or low") =>
        /\ exitCode = 1
        /\ ExportDirection(Arg(3)) = ""
        /\ sysfs = sysfs0

====
